---- MODULE Spec2Model ----
(***************************************************************************)
(* The virtualized list view of examples/data-list-view.rs: the shared     *)
(* data MyData, its Control messages, the Generator queries and the row    *)
(* driver are translated from the example; the list view that owns the     *)
(* row widgets, the message channel and the dispatch cycle belong to the   *)
(* toolkit and follow sections 4.4, 5 and 6 of the specification.          *)
(***************************************************************************)
EXTENDS Integers, Sequences, FiniteSets, TLC

\* ------------------------------------------------------------- bounds
WinSize == 2            \* rows in the visible window
MaxLo == 1              \* largest scroll offset (first key of the window)
MaxQueue == 2           \* messages one input pass can leave pending

MaxKey == MaxLo + WinSize - 1
Keys == 0..MaxKey
Offsets == 0..MaxLo
\* A String is a tuple of tokens; Option<String> is <<>> (None) or <<s>> (Some).
Texts == {<<"a">>}
None == <<>>
Some(s) == <<s>>
Ids == 0..(2 * WinSize - 1)

Max(a, b) == IF a >= b THEN a ELSE b

\* ------------------------------------------------------------- kas types
\* GeneratorChanges<usize>: None | Any | Range(lo..hi)
ChangesNone == [kind |-> "None", lo |-> 0, hi |-> 0]
ChangesAny == [kind |-> "Any", lo |-> 0, hi |-> 0]
ChangesRange(lo, hi) == [kind |-> "Range", lo |-> lo, hi |-> hi]

\* DataLen::LBound(n)
LBound(n) == [kind |-> "LBound", len |-> n]

\* enum Control { Select(usize), Update(usize, String) }
Select(index) == [type |-> "Select", index |-> index, text |-> <<>>]
Update(index, text) == [type |-> "Update", index |-> index, text |-> text]
Control == {Select(k) : k \in Keys} \cup {Update(k, t) : k \in Keys, t \in Texts}

\* ------------------------------------------------------------- MyData
MyData_new ==
    [last_change |-> ChangesNone,
     last_key |-> 0,
     active |-> 0,
     strings |-> [k \in Keys |-> None]]

\* format!("Entry #{}", index + 1)
EntryText(index) == <<"Entry #", index + 1>>

MyData_get_string(d, index) ==
    IF d.strings[index] # None THEN d.strings[index][1] ELSE EntryText(index)

\* Does get_string panic?  .get(&index).cloned().unwrap_or_else(..) supplies
\* the default text where no string is stored, so it never does.
GetStringUnwraps(d, index) == d.strings[index] = None

GetStringPanics(d, index) == FALSE

HandleKeepsChange(d, control) ==
    IF control.type = "Select"
    THEN [d EXCEPT !.active = control.index]
    ELSE [d EXCEPT !.last_key = Max(d.last_key, control.index),
                   !.strings[control.index] = Some(control.text)]

HandleSelectAsRange(d, control) ==
    IF control.type = "Select"
    THEN [d EXCEPT !.last_change = ChangesRange(control.index, control.index + 1),
                   !.active = control.index]
    ELSE [d EXCEPT !.last_change = ChangesRange(control.index, control.index + 1),
                   !.last_key = Max(d.last_key, control.index),
                   !.strings[control.index] = Some(control.text)]

HandleUpdateAsAny(d, control) ==
    IF control.type = "Select"
    THEN [d EXCEPT !.last_change = ChangesAny,
                   !.active = control.index]
    ELSE [d EXCEPT !.last_change = ChangesAny,
                   !.last_key = Max(d.last_key, control.index),
                   !.strings[control.index] = Some(control.text)]

HandleEmptyRange(d, control) ==
    IF control.type = "Select"
    THEN [d EXCEPT !.last_change = ChangesAny,
                   !.active = control.index]
    ELSE [d EXCEPT !.last_change = ChangesRange(control.index, control.index),
                   !.last_key = Max(d.last_key, control.index),
                   !.strings[control.index] = Some(control.text)]

HandleForgetsKey(d, control) ==
    IF control.type = "Select"
    THEN [d EXCEPT !.last_change = ChangesAny,
                   !.active = control.index]
    ELSE [d EXCEPT !.last_change = ChangesRange(control.index, control.index + 1),
                   !.last_key = control.index,
                   !.strings[control.index] = Some(control.text)]

HandleInsertsIfAbsent(d, control) ==
    IF control.type = "Select"
    THEN [d EXCEPT !.last_change = ChangesAny,
                   !.active = control.index]
    ELSE [d EXCEPT !.last_change = ChangesRange(control.index, control.index + 1),
                   !.last_key = Max(d.last_key, control.index),
                   !.strings[control.index] =
                       IF d.strings[control.index] = None THEN Some(control.text)
                       ELSE d.strings[control.index]]

MyData_handle(d, control) ==
    IF control.type = "Select"
    THEN [d EXCEPT !.last_change = ChangesAny,
                   !.active = control.index]
    ELSE [d EXCEPT !.last_change = ChangesRange(control.index, control.index + 1),
                   !.last_key = Max(d.last_key, control.index),
                   !.strings[control.index] = Some(control.text)]

\* ------------------------------------------------------------- Generator
UpdateReportsNone(d) == ChangesNone

Generator_update(d) == d.last_change

LenOfActive(d, lbound) == LBound(Max(d.active + 1, lbound))

LenIgnoresHint(d, lbound) == LBound(Max(d.active, d.last_key) + 1)

Generator_len(d, lbound) == LBound(Max(Max(d.active, d.last_key) + 1, lbound))

Generator_key(d, index) == index

\* type MyItem = (usize, String): (active index, entry's text)
Generator_generate(d, key) == <<d.active, MyData_get_string(d, key)>>

\* Does generate panic?  It holds no assertion on the key; only get_string
\* could.
GeneratePanics(d, key) == GetStringPanics(d, key)

\* ------------------------------------------------------------- row widgets
\* ListEntry built by the driver for key n: its label, and the key captured by
\* the radio button's closures and by the edit box's guard.
MakeForgetsKey(key) == [label |-> <<"Entry number ", key + 1>>, n |-> 0]

ListEntryDriver_make(key) == [label |-> <<"Entry number ", key + 1>>, n |-> key]

ListEntryDriver_navigable(w) == FALSE

\* RadioButton::new_msg(.., |_, data| data.0 == n, || Control::Select(n))
Radio_selected(w, item) == item[1] = w.n
Radio_msg(w) == Select(w.n)

ListEntryGuard_activate(w) == Select(w.n)
ListEntryGuard_edit(w, text) == Update(w.n, text)

\* ------------------------------------------------------------- list view
\* Does the change set name key k?
InChanges(c, k) ==
    \/ c.kind = "Any"
    \/ c.kind = "Range" /\ c.lo <= k /\ k < c.hi

Window(lo) == lo..(lo + WinSize - 1)

\* The lower-bound hint of a length query: the end of the queried window.
LenHint(lo) == lo + WinSize

\* Keys that must be materialized: the window cut to the addressable range.
Target(d, lo) ==
    {k \in Window(lo) : k < Generator_len(d, LenHint(lo)).len /\ Generator_key(d, k) = k}

RebuildAll(have, want) == want

Entering(have, want) == want \ have

Leaving(have, want) == have \ want

RefreshAll(kept, changes) == kept

Refreshed(kept, changes) == {k \in kept : InChanges(changes, k)}

NthSmallest(S, r) == CHOOSE x \in S : Cardinality({y \in S : y < x}) = r

\* Identity of the instance created for key k of `entering`: an identity no
\* widget alive before the pass has.
NewId(w, entering, k) ==
    NthSmallest(Ids \ {w[j].id : j \in DOMAIN w},
                Cardinality({j \in entering : j < k}))

VARIABLES
    data,       \* MyData held by the top-level Adapt (with_state)
    queue,      \* Control messages pushed and not yet drained (FIFO)
    winLo,      \* first key of the visible window (scroll offset)
    widgets,    \* materialized rows: key -> [id, w, item]
    pc,         \* "input": events are handled; "drain": messages are drained;
                \* "scroll": the window moved and is not yet reconciled
    atPoll,     \* MyData as it was at the last Generator::update poll
    lastReport, \* what that poll returned ("NoPoll" kind before the first)
    batch,      \* controls handled since the last poll
    pass,       \* record of the reconciliation pass that has just run
    hist,       \* what the handled controls said last: [sel, txt, last, before]
    edit,       \* one row's edit field: [n, text, focus]
    guardCall,  \* record of the ListEntryGuard::update call that has just run
    counter,    \* the Counter widget of counter.rs / custom-widget.rs
    sync        \* sync-counter.rs: the shared Count and its two windows

listVars == <<data, queue, winLo, widgets, pc, atPoll, lastReport, batch, pass>>

\* State of the other programs and probes, which the list view leaves alone
side == <<hist, edit, guardCall, counter, sync>>

vars == <<data, queue, winLo, widgets, pc, atPoll, lastReport, batch, pass,
          hist, edit, guardCall, counter, sync>>

NoPoll == [kind |-> "NoPoll", lo |-> 0, hi |-> 0]

NoWidgets == [k \in {} |-> 0]

NoPass ==
    [ran |-> FALSE, repeat |-> FALSE, changes |-> NoPoll, prevChanges |-> NoPoll,
     len |-> 0, lo |-> 0, from |-> MyData_new, batch |-> <<>>, scrolled |-> FALSE,
     diff |-> {},
     created |-> {}, destroyed |-> {}, refreshed |-> {}, before |-> NoWidgets]

\* The list view example right after construction
ListInit ==
    /\ data = MyData_new
    /\ queue = <<>>
    /\ winLo = 0
    /\ widgets = NoWidgets
    /\ pc = "input"
    /\ atPoll = MyData_new
    /\ lastReport = NoPoll
    /\ batch = <<>>
    /\ pass = NoPass

NoHist ==
    [sel |-> 0, txt |-> [k \in Keys |-> None], last |-> "", before |-> MyData_new]

\* EditBox::new(ListEntryGuard(n)): empty text, no edit focus
NewEdit(n) == [n |-> n, text |-> <<"">>, focus |-> FALSE]

NoGuardCall == [ran |-> FALSE, before |-> NewEdit(0), item |-> <<0, <<"">>>>]

HistIdle == hist = NoHist
GuardIdle == edit = NewEdit(0) /\ guardCall = NoGuardCall
\* A program that is not running
NotRunning == [on |-> FALSE]

CounterIdle == counter = NotRunning
SyncIdle == sync = NotRunning

Init ==
    /\ ListInit
    /\ HistIdle
    /\ GuardIdle
    /\ CounterIdle
    /\ SyncIdle

\* cx.push(control): an event handler of a materialized row leaves a message.
Push(control) ==
    /\ pc = "input"
    /\ Len(queue) < MaxQueue
    /\ queue' = Append(queue, control)
    /\ pass' = NoPass
    /\ UNCHANGED <<data, winLo, widgets, pc, atPoll, lastReport, batch>>
    /\ UNCHANGED side

\* Activating the edit box of row k pushes Select
Activate ==
    \E k \in DOMAIN widgets : Push(ListEntryGuard_activate(widgets[k].w))

\* Pressing the radio button of row k pushes Select
RadioPress ==
    \E k \in DOMAIN widgets : Push(Radio_msg(widgets[k].w))

\* Editing the text of row k pushes Update
Edit ==
    \E k \in DOMAIN widgets, t \in Texts : Push(ListEntryGuard_edit(widgets[k].w, t))

\* A scroll event moves the viewport to another offset; the list view
\* reconciles its rows before the next event is handled.
Scroll ==
    /\ pc = "input"
    /\ queue = <<>>
    /\ \E lo \in Offsets \ {winLo} : winLo' = lo
    /\ pc' = "scroll"
    /\ pass' = NoPass
    /\ UNCHANGED <<data, queue, widgets, atPoll, lastReport, batch>>
    /\ UNCHANGED side

DrainPeeks ==
    /\ queue # <<>>
    /\ data' = MyData_handle(data, Head(queue))
    /\ batch' = Append(batch, Head(queue))
    /\ pc' = "drain"
    /\ pass' = NoPass
    /\ UNCHANGED <<queue, winLo, widgets, atPoll, lastReport>>
    /\ UNCHANGED side

\* .on_message(|_, data, control| data.handle(control)): one pending message
\* is popped and applied to MyData.
Drain ==
    /\ queue # <<>>
    /\ data' = MyData_handle(data, Head(queue))
    /\ queue' = Tail(queue)
    /\ batch' = Append(batch, Head(queue))
    /\ pc' = "drain"
    /\ pass' = NoPass
    /\ UNCHANGED <<winLo, widgets, atPoll, lastReport>>
    /\ UNCHANGED side

\* One reconciliation pass of the list view (specification 4.4, steps 1-7).
Reconcile ==
    /\ queue = <<>>
    /\ LET len == Generator_len(data, LenHint(winLo)).len
           changes == Generator_update(data)
           have == DOMAIN widgets
           want == Target(data, winLo)
           entering == Entering(have, want)
           leaving == Leaving(have, want)
           kept == have \ leaving
           refreshed == Refreshed(kept, changes)
       IN /\ widgets' =
                [k \in kept \cup entering |->
                    IF k \in entering
                    THEN [id |-> NewId(widgets, entering, k),
                          w |-> ListEntryDriver_make(k),
                          item |-> Generator_generate(data, k)]
                    ELSE IF k \in refreshed
                    THEN [widgets[k] EXCEPT !.item = Generator_generate(data, k)]
                    ELSE widgets[k]]
          /\ pass' =
                [ran |-> TRUE,
                 repeat |-> pass.ran,
                 changes |-> changes,
                 prevChanges |-> lastReport,
                 len |-> len,
                 lo |-> winLo,
                 from |-> atPoll,
                 batch |-> batch,
                 scrolled |-> (pc = "scroll"),
                 diff |-> {k \in Keys :
                            Generator_generate(data, k) # Generator_generate(atPoll, k)},
                 created |-> entering,
                 destroyed |-> leaving,
                 refreshed |-> refreshed,
                 before |-> widgets]
          /\ lastReport' = changes
    /\ atPoll' = data
    /\ batch' = <<>>
    /\ pc' = "input"
    /\ UNCHANGED <<data, queue, winLo>>
    /\ UNCHANGED side

Next ==
    \/ Activate
    \/ RadioPress
    \/ Edit
    \/ Scroll
    \/ Drain
    \/ Reconcile

Spec == Init /\ [][Next]_vars

\* on_message applied to every control of a batch, oldest first
RECURSIVE ApplyAll(_, _)
ApplyAll(d, controls) ==
    IF controls = <<>> THEN d
    ELSE ApplyAll(MyData_handle(d, Head(controls)), Tail(controls))

TypeOK ==
    /\ data.active \in Keys
    /\ data.last_key \in Keys
    /\ Len(queue) <= MaxQueue
    /\ winLo \in Offsets
    /\ DOMAIN widgets \subseteq Keys
    /\ pc \in {"input", "drain", "scroll"}
    /\ Len(batch) <= MaxQueue

\* ------------------------------------------------------------- claims
\* A pass that polled after an earlier poll
Polled == pass.ran /\ pass.prevChanges # NoPoll

\* Every key whose generated item differs from the previous poll is named by
\* the change set this poll returned.
Covered == \A k \in pass.diff : InChanges(pass.changes, k)

\* The change set MyData::handle records for one control
ExpectedChange(control) ==
    IF control.type = "Select" THEN ChangesAny
    ELSE ChangesRange(control.index, control.index + 1)

\* C1 (as stated): after one or more handle calls between two consecutive
\* polls, the second poll's change set covers every key whose item changed.
C1_NeverUnderReports == (Polled /\ Len(pass.batch) >= 1) => Covered

\* C1 (amended): after exactly one handle call between two consecutive polls,
\* the second poll's change set covers every key whose item changed.
C1_SingleHandleCovered == (Polled /\ Len(pass.batch) = 1) => Covered

C1_Witness == Polled /\ Len(pass.batch) = 1 /\ pass.diff # {}

\* C2 (as stated): a poll that follows another poll with no handle call in
\* between reports None.
C2_PollConsumes == (Polled /\ pass.batch = <<>>) => pass.changes = ChangesNone

\* C2 (amended): polling does not consume: a poll that follows another poll
\* with no handle call in between reports what the previous poll reported, and
\* a poll reports None only while no message has ever been handled.
C2_PollRepeats ==
    /\ (Polled /\ pass.batch = <<>>) => pass.changes = pass.prevChanges
    /\ (pass.ran /\ pass.changes = ChangesNone) => data = MyData_new

C2_Witness == Polled /\ pass.batch = <<>> /\ pass.changes.kind \in {"Any", "Range"}

Hints == 0..(MaxKey + 1)

\* C3 (as stated): for a fixed lbound hint, no message lowers the length
\* Generator::len reports, so a key below an earlier length stays below.
C3_LenMonotone ==
    [][\A h \in Hints : Generator_len(data', h).len >= Generator_len(data, h).len]_vars

\* C3 (amended): for a fixed lbound hint the reported length never falls
\* below max(last_key + 1, lbound), a floor no message lowers, and a message
\* lowers the length only if it is a Select of an index below the active one.
C3_LenFloor ==
    [][\A h \in Hints :
          /\ data'.last_key >= data.last_key
          /\ Generator_len(data', h).len >= Max(data'.last_key + 1, h)
          /\ (data'.active >= data.active =>
                Generator_len(data', h).len >= Generator_len(data, h).len)]_vars

C3_Witness ==
    /\ pc = "drain"
    /\ data.active < atPoll.active
    /\ data.last_key > 0
    /\ Generator_len(data, 0).len < Generator_len(atPoll, 0).len

\* Does the change set report the mutation of this control?
Reports(changes, control) ==
    IF control.type = "Select" THEN changes.kind = "Any"
    ELSE InChanges(changes, control.index)

\* C4 (as stated): every pushed message is drained and applied before the
\* next pass, whose poll reports each message's mutation exactly once: none
\* is missed, and a poll with nothing new to report reports None.
C4_EachReportedOnce ==
    pass.ran =>
        /\ queue = <<>>
        /\ data = ApplyAll(pass.from, pass.batch)
        /\ \A i \in 1..Len(pass.batch) : Reports(pass.changes, pass.batch[i])
        /\ (Polled /\ pass.batch = <<>>) => pass.changes = ChangesNone

\* C4 (amended): every pushed message is drained and applied, oldest first,
\* before the next pass; its poll reports the change of the last message
\* drained (earlier ones of the batch may go unreported), and with no message
\* drained it reports again what the previous poll reported.
C4_LastReported ==
    pass.ran =>
        /\ queue = <<>>
        /\ data = ApplyAll(pass.from, pass.batch)
        /\ pass.batch # <<>> =>
              pass.changes = ExpectedChange(pass.batch[Len(pass.batch)])
        /\ (Polled /\ pass.batch = <<>>) => pass.changes = pass.prevChanges

C4_Witness ==
    /\ pass.ran
    /\ Len(pass.batch) = 2
    /\ pass.batch[1].type = "Update"
    /\ pass.batch[2].type = "Update"
    /\ pass.batch[1].index # pass.batch[2].index

\* Rows alive before and after the pass
Kept == DOMAIN pass.before \cap DOMAIN widgets

\* The row of key k is the instance it was, with the item it had.
Untouched(k) ==
    /\ widgets[k] = pass.before[k]
    /\ k \notin pass.refreshed
    /\ k \notin pass.created

\* The row of key k is the instance it was, showing the item generated now.
RefreshedInPlace(k) ==
    /\ widgets[k].id = pass.before[k].id
    /\ widgets[k].w = pass.before[k].w
    /\ widgets[k].item = Generator_generate(data, k)
    /\ k \in pass.refreshed
    /\ k \notin pass.created

\* C5: after every reconciliation pass the materialized keys are exactly the
\* keys of the visible window below the length Generator::len reports for the
\* current data (here the whole window: the length is at least the hint).
C5_MaterializedIsWindow ==
    pass.ran =>
        /\ DOMAIN widgets =
              Window(winLo) \cap 0..(Generator_len(data, LenHint(winLo)).len - 1)
        /\ DOMAIN widgets = Window(winLo)
        /\ \A k \in DOMAIN widgets : widgets[k].w = ListEntryDriver_make(k)

C5_Witness ==
    /\ pass.ran
    /\ winLo = MaxLo
    /\ pass.scrolled
    /\ data.active = 0
    /\ data.last_key = 0
    /\ data.last_change.kind = "Any"

\* C6: a reconciliation pass that directly follows another, with no message
\* handled and no scroll in between, creates no widget and destroys none.
C6_Idempotent ==
    (pass.ran /\ pass.repeat) =>
        /\ pass.created = {}
        /\ pass.destroyed = {}
        /\ DOMAIN widgets = DOMAIN pass.before
        /\ \A k \in DOMAIN widgets : widgets[k].id = pass.before[k].id

C6_Witness ==
    /\ pass.ran
    /\ pass.repeat
    /\ DOMAIN widgets = Window(MaxLo)
    /\ pass.changes.kind = "Any"

\* C7: when the polled change set is Range(a, b), a materialized key outside
\* [a, b) that stays materialized keeps its widget instance and is not
\* refreshed.
C7_ChangeIsolation ==
    (pass.ran /\ pass.changes.kind = "Range") =>
        \A k \in Kept : ~InChanges(pass.changes, k) => Untouched(k)

C7_Witness ==
    /\ pass.ran
    /\ pass.changes.kind = "Range"
    /\ \E k \in Kept : ~InChanges(pass.changes, k)
    /\ \E k \in Kept : InChanges(pass.changes, k) /\ widgets[k].item # pass.before[k].item

\* C8: with one Update(k, text) handled since the last poll, the poll reports
\* Range(k, k+1) and the pass refreshes the row of key k only: no row is
\* created or destroyed and every other row is untouched.
C8_EditRefreshesOneRow ==
    (pass.ran /\ Len(pass.batch) = 1 /\ pass.batch[1].type = "Update") =>
        LET k == pass.batch[1].index
        IN /\ pass.changes = ChangesRange(k, k + 1)
           /\ pass.created = {}
           /\ pass.destroyed = {}
           /\ pass.refreshed = {k}
           /\ RefreshedInPlace(k)
           /\ widgets[k].item[2] = pass.batch[1].text
           /\ \A j \in DOMAIN widgets \ {k} : Untouched(j)

C8_Witness ==
    /\ pass.ran
    /\ Len(pass.batch) = 1
    /\ pass.batch[1].type = "Update"
    /\ widgets[pass.batch[1].index].item # pass.before[pass.batch[1].index].item
    /\ Cardinality(DOMAIN widgets) >= 2

\* C9: with one Select(k) handled since the last poll, the poll reports Any
\* and the pass refreshes the item of every materialized row, creating and
\* destroying none.
C9_SelectRefreshesAll ==
    (pass.ran /\ Len(pass.batch) = 1 /\ pass.batch[1].type = "Select") =>
        /\ pass.changes = ChangesAny
        /\ pass.created = {}
        /\ pass.destroyed = {}
        /\ DOMAIN widgets = DOMAIN pass.before
        /\ \A j \in DOMAIN widgets :
              /\ RefreshedInPlace(j)
              /\ Radio_selected(widgets[j].w, widgets[j].item) <=> j = pass.batch[1].index

C9_Witness ==
    /\ pass.ran
    /\ Len(pass.batch) = 1
    /\ pass.batch[1].type = "Select"
    /\ pass.batch[1].index < pass.from.active
    /\ pass.from.last_key = 0
    /\ Cardinality(DOMAIN widgets) = WinSize

\* C10 (as stated): when the window moves with no data mutation, the pass
\* destroys exactly the rows that left it, creates exactly the rows that
\* entered it and leaves the rows that stayed untouched, without a refresh.
C10_ScrollLeavesKeptUntouched ==
    (pass.ran /\ pass.scrolled /\ pass.batch = <<>>) =>
        /\ pass.destroyed = DOMAIN pass.before \ Window(winLo)
        /\ pass.created = Window(winLo) \ DOMAIN pass.before
        /\ DOMAIN widgets = Window(winLo)
        /\ \A k \in Kept : Untouched(k)

\* C10 (amended): when the window moves with no data mutation, the pass
\* destroys exactly the rows that left it, creates exactly the rows that
\* entered it through Driver::make and keeps the instances of the rows that
\* stayed; a row that stayed is refreshed exactly when the change set still
\* held in last_change names its key, so none is while no message was handled.
C10_ScrollKeepsInstances ==
    (pass.ran /\ pass.scrolled /\ pass.batch = <<>>) =>
        /\ pass.destroyed = DOMAIN pass.before \ Window(winLo)
        /\ pass.created = Window(winLo) \ DOMAIN pass.before
        /\ DOMAIN widgets = Window(winLo)
        /\ \A k \in pass.created :
              /\ widgets[k].w.n = k
              /\ widgets[k].w.label = <<"Entry number ", k + 1>>
              /\ widgets[k].item = Generator_generate(data, k)
              /\ \A j \in DOMAIN pass.before : pass.before[j].id # widgets[k].id
        /\ \A k \in Kept :
              IF InChanges(data.last_change, k) THEN RefreshedInPlace(k) ELSE Untouched(k)
        /\ data = MyData_new => \A k \in Kept : Untouched(k)

C10_Witness ==
    /\ pass.ran
    /\ pass.scrolled
    /\ DOMAIN pass.before = Window(0)
    /\ winLo = 1
    /\ pass.destroyed = {0}
    /\ pass.created = {WinSize}
    /\ Kept # {}
    /\ data.last_change.kind = "Range"
    /\ \E k \in Kept : Untouched(k)

C12_FailsLoudly ==
    pass.ran => \A k \in Keys : k >= pass.len => GeneratePanics(data, k)

\* C12 (amended): generate is total and holds no assertion: for every key, at
\* or beyond the length last reported too, it yields the active index with the
\* stored text, or the default text "Entry #<k+1>" where none is stored; the
\* list view itself binds items only to keys below the length it was given.
C12_GenerateTotal ==
    /\ \A k \in Keys :
          /\ ~GeneratePanics(data, k)
          /\ Generator_generate(data, k) =
                <<data.active,
                  IF data.strings[k] = None THEN <<"Entry #", k + 1>>
                  ELSE data.strings[k][1]>>
    /\ pass.ran => \A k \in DOMAIN widgets : k < pass.len

C12_Witness ==
    /\ pass.ran
    /\ \E k \in Keys :
          /\ k >= pass.len
          /\ Generator_generate(data, k) = <<data.active, <<"Entry #", k + 1>>>>
    /\ \E k \in DOMAIN widgets : data.strings[k] # None

\* ------------------------------------------------------------- edit guard
\* One row's edit field and the calls of ListEntryGuard::update on it.
TypedTexts == Texts \cup {<<"b">>}

\* Items the generator can yield for the row of key n
ItemsFor(n) == {<<a, t>> : a \in Keys, t \in Texts \cup {EntryText(n)}}

GuardAlwaysSets(e, item) == [e EXCEPT !.text = item[2]]

\* if !edit.has_edit_focus() { edit.set_string(cx, data.1.to_string()) }
ListEntryGuard_update(e, item) ==
    IF ~e.focus THEN [e EXCEPT !.text = item[2]] ELSE e

GuardInit ==
    /\ ListInit
    /\ HistIdle
    /\ CounterIdle
    /\ SyncIdle
    /\ edit \in {NewEdit(n) : n \in Keys}
    /\ guardCall = NoGuardCall

GainFocus ==
    /\ ~edit.focus
    /\ edit' = [edit EXCEPT !.focus = TRUE]
    /\ guardCall' = NoGuardCall
    /\ UNCHANGED <<listVars, hist, counter, sync>>

LoseFocus ==
    /\ edit.focus
    /\ edit' = [edit EXCEPT !.focus = FALSE]
    /\ guardCall' = NoGuardCall
    /\ UNCHANGED <<listVars, hist, counter, sync>>

\* The user types into the focused field.
TypeText ==
    /\ edit.focus
    /\ \E t \in TypedTexts \ {edit.text} : edit' = [edit EXCEPT !.text = t]
    /\ guardCall' = NoGuardCall
    /\ UNCHANGED <<listVars, hist, counter, sync>>

\* The list view pushes an item into the row: EditGuard::update runs.
GuardUpdate ==
    /\ \E item \in ItemsFor(edit.n) :
          /\ edit' = ListEntryGuard_update(edit, item)
          /\ guardCall' = [ran |-> TRUE, before |-> edit, item |-> item]
    /\ UNCHANGED <<listVars, hist, counter, sync>>

GuardNext ==
    \/ GainFocus
    \/ LoseFocus
    \/ TypeText
    \/ GuardUpdate

SpecGuard == GuardInit /\ [][GuardNext]_vars

\* C13: ListEntryGuard::update leaves the text of an edit field that has edit
\* focus as it is, sets the text of a field without edit focus to the item's
\* string, and changes neither the focus nor the key of the field.
C13_UpdateSparesFocusedEdit ==
    guardCall.ran =>
        /\ edit.n = guardCall.before.n
        /\ edit.focus = guardCall.before.focus
        /\ guardCall.before.focus => edit.text = guardCall.before.text
        /\ ~guardCall.before.focus => edit.text = guardCall.item[2]

C13_Witness ==
    /\ guardCall.ran
    /\ guardCall.before.focus
    /\ guardCall.before.text = <<"b">>
    /\ guardCall.item[2] = <<"a">>
    /\ edit.text = <<"b">>

\* ------------------------------------------------------------- counters
\* counter.rs and custom-widget.rs: a Counter widget with two buttons.
MaxPending == 2         \* Increment messages that can be pending at once
MaxPresses == 3         \* button presses of one run

\* struct Increment(i32)
Increment(n) == [type |-> "Increment", n |-> n, win |-> 0]

\* i32::to_string / format!("{}", i32): the decimal rendering, as characters
DigitChar(d) == <<"0", "1", "2", "3", "4", "5", "6", "7", "8", "9">>[d + 1]

RECURSIVE Digits(_)
Digits(n) == IF n < 10 THEN <<DigitChar(n)>> ELSE Digits(n \div 10) \o <<DigitChar(n % 10)>>

I32_to_string(n) == IF n < 0 THEN <<"-">> \o Digits(0 - n) ELSE Digits(n)

\* MessageStack::try_pop::<M>(): the message pushed last, if it is an M
TryPop(stack, type) ==
    IF stack # <<>> /\ stack[Len(stack)].type = type
    THEN [some |-> TRUE, msg |-> stack[Len(stack)], rest |-> SubSeq(stack, 1, Len(stack) - 1)]
    ELSE [some |-> FALSE, msg |-> Increment(0), rest |-> stack]

NoCounterCall == [ran |-> FALSE, popped |-> FALSE, count |-> 0, display |-> <<>>]

Programs == {"counter.rs", "custom-widget.rs"}

\* Counts a run can start from: Counter::new(0) of main, and counts it reaches
\* only after more presses than MaxPresses
InitialCounts == {0, 9, -10}

\* Counter::new(count): counter.rs renders the label at once; the Text of
\* custom-widget.rs is rendered by the first update, when the window is
\* configured.
Counter_new(prog, count) ==
    [on |-> TRUE,
     prog |-> prog,
     count |-> count,
     display |-> IF prog = "counter.rs" THEN I32_to_string(count) ELSE <<>>,
     configured |-> (prog = "counter.rs"),
     stack |-> <<>>,
     initial |-> count,
     pushed |-> 0,
     presses |-> 0,
     peak |-> 0,
     call |-> NoCounterCall]

HandleClearsStack(c) ==
    LET p == TryPop(c.stack, "Increment")
    IN IF p.some
       THEN [c EXCEPT !.count = c.count + p.msg.n,
                      !.display = I32_to_string(c.count + p.msg.n),
                      !.stack = <<>>]
       ELSE c

HandleShowsOldCount(c) ==
    LET p == TryPop(c.stack, "Increment")
    IN IF p.some
       THEN [c EXCEPT !.count = c.count + p.msg.n,
                      !.display = I32_to_string(c.count),
                      !.stack = p.rest]
       ELSE c

\* Counter::handle_message (counter.rs) / Counter::handle_messages
\* (custom-widget.rs): if let Some(Increment(incr)) = try_pop() { count += incr;
\* display shows count }
Counter_handle_messages(c) ==
    LET p == TryPop(c.stack, "Increment")
    IN IF p.some
       THEN [c EXCEPT !.count = c.count + p.msg.n,
                      !.display = I32_to_string(c.count + p.msg.n),
                      !.stack = p.rest]
       ELSE c

CounterInit ==
    /\ ListInit
    /\ HistIdle
    /\ GuardIdle
    /\ SyncIdle
    /\ counter \in {Counter_new(prog, n) : prog \in Programs, n \in InitialCounts}

\* The window is configured: the first update renders the bound Text.
Configure ==
    /\ counter.on
    /\ ~counter.configured
    /\ counter' = [counter EXCEPT !.configured = TRUE,
                                  !.display = I32_to_string(counter.count),
                                  !.call = NoCounterCall]
    /\ UNCHANGED <<listVars, hist, edit, guardCall, sync>>

\* A button is pressed: its Increment is pushed.
Press(n) ==
    /\ counter.on
    /\ counter.configured
    /\ Len(counter.stack) < MaxPending
    /\ counter.presses < MaxPresses
    /\ counter' = [counter EXCEPT !.stack = Append(counter.stack, Increment(n)),
                                  !.pushed = counter.pushed + n,
                                  !.presses = counter.presses + 1,
                                  !.peak = Max(counter.peak, Len(counter.stack) + 1),
                                  !.call = NoCounterCall]
    /\ UNCHANGED <<listVars, hist, edit, guardCall, sync>>

PressMinus == Press(-1)

PressPlus == Press(1)

\* The toolkit calls the widget's message handler.
HandleMessages ==
    /\ counter.on
    /\ counter.configured
    /\ counter' =
          [Counter_handle_messages(counter) EXCEPT
              !.call = [ran |-> TRUE,
                        popped |-> TryPop(counter.stack, "Increment").some,
                        count |-> counter.count,
                        display |-> counter.display]]
    /\ UNCHANGED <<listVars, hist, edit, guardCall, sync>>

CounterNext ==
    \/ Configure
    \/ PressMinus
    \/ PressPlus
    \/ HandleMessages

SpecCounter == CounterInit /\ [][CounterNext]_vars

\* ------------------------------------------------------------- sync-counter
\* sync-counter.rs: the shared Count (AppData) and two windows, each with its
\* state (count copy, increment), a slider and the Sub and Add buttons.
SliderMin == 1
SliderMax == 10
InitialIncrement == 1

SliderValues == {SliderMin, SliderMax}
Windows == {1, 2}

\* struct SetValue(i32), pushed by the slider of window w
SetValue(v, w) == [type |-> "SetValue", n |-> v, win |-> w]

NoSyncCall ==
    [ran |-> FALSE, kind |-> "", w |-> 0, n |-> 0, count |-> 0,
     win |-> [w \in Windows |-> [c |-> 0, inc |-> 0]]]

\* let count = Count(0); counter("Counter 1"), counter("Counter 2") with
\* initial: Data = (Count(0), 1)
Sync_new ==
    [on |-> TRUE,
     count |-> 0,
     win |-> [w \in Windows |-> [c |-> 0, inc |-> InitialIncrement]],
     stack |-> <<>>,
     dirty |-> {},
     pushed |-> 0,
     presses |-> 0,
     peak |-> 0,
     call |-> NoSyncCall]

\* impl AppData for Count: if let Some(Increment(add)) = messages.try_pop()
\* { self.0 += add }
Count_handle_messages(count, stack) ==
    LET p == TryPop(stack, "Increment")
    IN IF p.some THEN [count |-> count + p.msg.n, stack |-> p.rest, some |-> TRUE]
       ELSE [count |-> count, stack |-> stack, some |-> FALSE]

OnUpdateAdds(state, count) == [state EXCEPT !.c = state.c + count]

\* .on_update(|_, state, count| state.0 = *count)
Window_on_update(state, count) == [state EXCEPT !.c = count]

\* .on_message(|_, state, SetValue(v)| state.1 = v)
Window_on_message(state, v) == [state EXCEPT !.inc = v]

SyncInit ==
    /\ ListInit
    /\ HistIdle
    /\ GuardIdle
    /\ CounterIdle
    /\ sync = Sync_new

SyncPush(msg, n) ==
    /\ sync.on
    /\ sync.dirty = {}
    /\ Len(sync.stack) < MaxPending
    /\ sync.presses < MaxPresses
    /\ sync' = [sync EXCEPT !.stack = Append(sync.stack, msg),
                            !.pushed = sync.pushed + n,
                            !.presses = sync.presses + 1,
                            !.peak = Max(sync.peak, Len(sync.stack) + 1),
                            !.call = NoSyncCall]
    /\ UNCHANGED <<listVars, hist, edit, guardCall, counter>>

\* Button "Sub" of window w: cx.push(Increment(-data.1))
PressSub ==
    \E w \in Windows : SyncPush(Increment(0 - sync.win[w].inc), 0 - sync.win[w].inc)

\* Button "Add" of window w: cx.push(Increment(data.1))
PressAdd ==
    \E w \in Windows : SyncPush(Increment(sync.win[w].inc), sync.win[w].inc)

\* The slider of window w is moved to v: it pushes SetValue(v).
Slide ==
    \E w \in Windows, v \in SliderValues : SyncPush(SetValue(v, w), 0)

\* The Adapt of window w handles the SetValue pushed inside it.
AdaptHandle ==
    /\ sync.on
    /\ LET p == TryPop(sync.stack, "SetValue")
       IN /\ p.some
          /\ sync' = [sync EXCEPT
                        !.win[p.msg.win] = Window_on_message(sync.win[p.msg.win], p.msg.n),
                        !.stack = p.rest,
                        !.call = [ran |-> TRUE, kind |-> "SetValue", w |-> p.msg.win,
                                  n |-> p.msg.n,
                                  count |-> sync.count, win |-> sync.win]]
    /\ UNCHANGED <<listVars, hist, edit, guardCall, counter>>

\* The runner hands the pending messages to the AppData; after a handled
\* message every window is due an update.
AppHandle ==
    /\ sync.on
    /\ sync.stack # <<>>
    /\ LET r == Count_handle_messages(sync.count, sync.stack)
       IN sync' = [sync EXCEPT
                     !.count = r.count,
                     !.stack = r.stack,
                     !.dirty = IF r.some THEN Windows ELSE sync.dirty,
                     !.call = [ran |-> TRUE, kind |-> "Increment", w |-> 0,
                               n |-> 0,
                               count |-> sync.count, win |-> sync.win]]
    /\ UNCHANGED <<listVars, hist, edit, guardCall, counter>>

\* Update propagation reaches window w: its on_update closure runs.
UpdateWindow ==
    /\ sync.on
    /\ \E w \in sync.dirty :
          sync' = [sync EXCEPT
                     !.win[w] = Window_on_update(sync.win[w], sync.count),
                     !.dirty = sync.dirty \ {w},
                     !.call = NoSyncCall]
    /\ UNCHANGED <<listVars, hist, edit, guardCall, counter>>

SyncNext ==
    \/ PressSub
    \/ PressAdd
    \/ Slide
    \/ AdaptHandle
    \/ AppHandle
    \/ UpdateWindow

SpecSync == SyncInit /\ [][SyncNext]_vars

\* Either kind of counter program
SpecCounters == (CounterInit \/ SyncInit) /\ [][CounterNext \/ SyncNext]_vars

\* The sum of the Increment messages pending on a stack
RECURSIVE SumIncrements(_)
SumIncrements(stack) ==
    IF stack = <<>> THEN 0
    ELSE (IF Head(stack).type = "Increment" THEN Head(stack).n ELSE 0)
         + SumIncrements(Tail(stack))

\* C14: in counter.rs, custom-widget.rs and sync-counter.rs every pushed
\* Increment(n) is applied to the count exactly once: at every moment the
\* count plus the pending increments equals the initial count plus the sum of
\* all increments pushed, so once the stack is empty the count is the initial
\* count plus that sum; and no step of a handler removes more than one message.
C14_AppliedExactlyOnce ==
    [][/\ counter'.on =>
            /\ counter'.count + SumIncrements(counter'.stack)
                  = counter'.initial + counter'.pushed
            /\ counter'.stack = <<>> =>
                  counter'.count = counter'.initial + counter'.pushed
            /\ Len(counter'.stack) >= Len(counter.stack) - 1
       /\ sync'.on =>
            /\ sync'.count + SumIncrements(sync'.stack) = Sync_new.count + sync'.pushed
            /\ sync'.stack = <<>> => sync'.count = Sync_new.count + sync'.pushed
            /\ Len(sync'.stack) >= Len(sync.stack) - 1]_vars

C14_Witness ==
    /\ counter.on
    /\ counter.peak >= 2
    /\ counter.stack = <<>>
    /\ counter.call.ran
    /\ counter.call.popped
    /\ counter.pushed # 0
    /\ counter.count = counter.initial + counter.pushed

\* C15: in sync-counter, once update propagation has reached every window
\* each window's count copy equals the shared Count; and handling a SetValue
\* of window w sets the increment of w to the slider's value and leaves w's
\* count copy, the other window's state and the shared Count as they were.
C15_WindowsFollowCount ==
    sync.on =>
        /\ sync.dirty = {} => \A w \in Windows : sync.win[w].c = sync.count
        /\ (sync.call.ran /\ sync.call.kind = "SetValue") =>
              /\ sync.win[sync.call.w].inc = sync.call.n
              /\ sync.win[sync.call.w].c = sync.call.win[sync.call.w].c
              /\ \A w \in Windows \ {sync.call.w} : sync.win[w] = sync.call.win[w]
              /\ sync.count = sync.call.count

C15_Witness ==
    /\ sync.on
    /\ sync.dirty = {}
    /\ sync.stack = <<>>
    /\ sync.count = SliderMax - InitialIncrement
    /\ sync.win[1].inc = SliderMax
    /\ sync.win[2].inc = InitialIncrement
    /\ \A w \in Windows : sync.win[w].c = sync.count

\* Reading a decimal rendering back
DigitValue(ch) == CHOOSE d \in 0..9 : DigitChar(d) = ch

RECURSIVE ParseDigits(_)
ParseDigits(s) ==
    IF s = <<>> THEN 0
    ELSE 10 * ParseDigits(SubSeq(s, 1, Len(s) - 1)) + DigitValue(s[Len(s)])

ParseI32(s) == IF Head(s) = "-" THEN 0 - ParseDigits(Tail(s)) ELSE ParseDigits(s)

\* C16: in counter.rs and custom-widget.rs, when a handler call that popped
\* an Increment(n) returns, count is the old count plus n and the display is
\* the decimal rendering of the new count; a handler call that found no
\* Increment leaves count and display as they were; and in every state of the
\* configured window the display reads as the count.
C16_DisplayShowsCount ==
    (counter.on /\ counter.configured) =>
        /\ counter.display = I32_to_string(counter.count)
        /\ ParseI32(counter.display) = counter.count
        /\ (counter.call.ran /\ counter.call.popped) =>
              counter.count # counter.call.count
        /\ (counter.call.ran /\ ~counter.call.popped) =>
              /\ counter.count = counter.call.count
              /\ counter.display = counter.call.display

C16_Witness ==
    /\ counter.on
    /\ counter.call.ran
    /\ counter.call.popped
    /\ counter.call.display = <<"9">>
    /\ counter.display = <<"1", "0">>
    /\ counter.count = 10

\* ------------------------------------------------------------- MyData alone
\* MyData under any sequence of Control messages, with two user texts so that
\* a later Update of a key differs from an earlier one.
TypedControl ==
    {Select(k) : k \in Keys} \cup {Update(k, t) : k \in Keys, t \in TypedTexts}

\* What the controls handled so far said last
Record(h, d, control) ==
    IF control.type = "Select"
    THEN [h EXCEPT !.sel = control.index, !.last = "Select", !.before = d]
    ELSE [h EXCEPT !.txt[control.index] = Some(control.text),
                   !.last = "Update", !.before = d]

Handle(control) ==
    /\ data' = MyData_handle(data, control)
    /\ hist' = Record(hist, data, control)
    /\ UNCHANGED <<queue, winLo, widgets, pc, atPoll, lastReport, batch, pass,
                   edit, guardCall, counter, sync>>

HandleSelect == \E k \in Keys : Handle(Select(k))

HandleUpdate == \E k \in Keys, t \in TypedTexts : Handle(Update(k, t))

DataNext ==
    \/ HandleSelect
    \/ HandleUpdate

SpecData == Init /\ [][DataNext]_vars

\* C17: after any sequence of handled Control messages generate(data, k) is
\* (a, s) with a the index of the most recent Select (0 if none) and s the
\* text of the most recent Update of key k ("Entry #<k+1>" if none); an
\* Update leaves active as it was, a Select leaves strings and last_key as
\* they were.
C17_GenerateShowsLastControls ==
    /\ \A k \in Keys :
          Generator_generate(data, k) =
              <<hist.sel, IF hist.txt[k] # None THEN hist.txt[k][1]
                          ELSE <<"Entry #", k + 1>>>>
    /\ hist.last = "Update" => data.active = hist.before.active
    /\ hist.last = "Select" =>
          /\ data.strings = hist.before.strings
          /\ data.last_key = hist.before.last_key

C17_Witness ==
    /\ hist.last = "Update"
    /\ hist.before.strings[1] = Some(<<"a">>)
    /\ hist.before.active = MaxKey
    /\ Generator_generate(data, 1) = <<MaxKey, <<"b">>>>
    /\ Generator_generate(data, 0) = <<MaxKey, <<"Entry #", 1>>>>

\* C18: in every state of the list view, for every hint lbound the length
\* reported by Generator::len is at least lbound, above the active key and
\* above every key with a stored string, and exactly one key below it
\* satisfies its radio button's selected predicate.
C18_ActiveAndEditedAddressable ==
    \A h \in Hints :
        LET len == Generator_len(data, h).len
        IN /\ len >= h
           /\ len > data.active
           /\ \A k \in Keys : data.strings[k] # None => len > k
           /\ Cardinality({k \in 0..(len - 1) :
                  Radio_selected(ListEntryDriver_make(k), Generator_generate(data, k))}) = 1

C18_Witness ==
    /\ pass.ran
    /\ data.active = 1
    /\ data.strings[MaxKey] # None
    /\ data.strings[0] = None
    /\ Generator_len(data, 0).len = MaxKey + 1
====
